---- MODULE Spec2Model ----
(***************************************************************************)
(* Model of the browser upload widget AudioFileHandler                     *)
(* (staging/js/file-handler.js).  The widget owns a file input, a submit   *)
(* button, a status line, a progress section and a results box.  Handlers  *)
(* run one at a time on the UI thread; an async handler is suspended at    *)
(* each await and resumed by a network event.                              *)
(*                                                                         *)
(* Text is modelled as a sequence of string tokens, so that a template     *)
(* literal is the concatenation of its fixed parts and its substitutions.  *)
(***************************************************************************)
EXTENDS Integers, Sequences, FiniteSets, TLC

VARIABLES
    files,                \* fileInput.files: <<>> or <<file>>
    fileInputDisabled,    \* fileInput.disabled
    uploadButtonDisabled, \* uploadButton.disabled
    progressVisible,      \* progressSection.style.display = 'block'
    statusText,           \* statusIndicator.textContent
    resultsBox,           \* resultsBox.innerHTML, newest entry first
    healthPc,             \* checkAPIConnection: "pending" at its await, then how it ended
    inFlight,             \* handleUpload invocations suspended at an await
    posts,                \* the files POSTed to apiEndpoint, in order
    lastEvent,            \* the event the UI thread handled last
    lastDone,             \* <<>> or <<[file, outcome]>> of the upload that settled last
    backendUp             \* whether the transcription service behind the proxy answers

vars == <<files, fileInputDisabled, uploadButtonDisabled, progressVisible,
          statusText, resultsBox, healthPc, inFlight, posts, lastEvent, lastDone,
          backendUp>>

(***************************************************************************)
(* Bounds of the model.                                                    *)
(***************************************************************************)
MaxUploads == 2     \* POSTs issued in one page session

(***************************************************************************)
(* Program constants.                                                      *)
(***************************************************************************)
BytesPerMB == 1048576            \* file.size / 1024 / 1024
maxFileSize == 50 * 1024 * 1024  \* 50MB in bytes

(***************************************************************************)
(* Inputs: the files a user can pick, and what the network can answer.     *)
(***************************************************************************)
File(n, t, s) == [name |-> n, type |-> t, size |-> s]

UserFiles ==
    { File("test.wav",  "audio/wav",   1234567),
      File("edge.wav",  "audio/wav",   maxFileSize),
      File("big.wav",   "audio/wav",   maxFileSize + 1),
      File("song.mp3",  "audio/mpeg",  1572864),
      File("huge.mp3",  "audio/mpeg",  maxFileSize + 1),
      File("alt.wav",   "audio/x-wav", 0) }

Timestamps == {"10:00:00 AM", "10:05:00 AM"}

\* What `await fetch(apiEndpoint, ...)` settles with.
NetworkError == [kind |-> "reject", message |-> <<"Failed to fetch">>]
HttpResponse(code, reason) ==
    [kind |-> "response", ok |-> (code \in {"200", "204"}), status |-> code,
     statusText |-> reason]
FetchOutcomes ==
    { NetworkError,
      HttpResponse("200", "OK"),
      HttpResponse("500", "Internal Server Error") }

\* What `await response.json()` settles with.
SuccessJson(txt, pt) ==
    [kind |-> "object", success |-> TRUE, text |-> txt, processing_time |-> pt]
FailureJson(msg) ==
    [kind |-> "object", success |-> FALSE, error |-> msg]
NullJson == [kind |-> "null"]
Unparsable == [kind |-> "reject", message |-> <<"Unexpected token < in JSON">>]
JsonOutcomes ==
    { SuccessJson("hello", "1.2"),
      FailureJson(<<"decode failed">>),
      NullJson,
      Unparsable }

(***************************************************************************)
(* Texts the widget shows.                                                 *)
(***************************************************************************)
ReadyText      == <<"Ready to process audio files">>
ConnectionErrorText == <<"Error:", "Cannot connect to transcription service">>
TypeErrorText  == <<"Error:", "Please select a WAV file">>
SizeErrorText  == <<"Error:", "File size exceeds 50MB limit">>
UploadingText  == <<"Uploading and processing...">>
CompleteText   == <<"Transcription complete">>

\* Number.prototype.toFixed(2) of size / 1024 / 1024: the nearest hundredth,
\* the larger one on a tie, printed with two decimals.  The division by a
\* power of two is exact, so the hundredths are computed on integers
\* (split so that no intermediate exceeds 32 bits).
Hundredths(size) ==
    (size \div BytesPerMB) * 100
      + (((size % BytesPerMB) * 100 + BytesPerMB \div 2) \div BytesPerMB)

\* Variant: the size is cut to two decimals instead of rounded.
toFixed2Truncating(size) ==
    LET h == (size \div BytesPerMB) * 100 + (((size % BytesPerMB) * 100) \div BytesPerMB)
        frac == h % 100
    IN  ToString(h \div 100) \o "."
          \o (IF frac < 10 THEN "0" ELSE "") \o ToString(frac)

toFixed2(size) ==
    LET h == Hundredths(size)
        frac == h % 100
    IN  ToString(h \div 100) \o "."
          \o (IF frac < 10 THEN "0" ELSE "") \o ToString(frac)

SelectedText(file) == <<"Selected:", file.name, "(" \o toFixed2(file.size) \o "MB)">>

UploadFailedMessage(response) ==
    <<"Upload failed:", response.status, response.statusText>>

ErrorText(message) == <<"Error:">> \o message

\* Thrown by `result.success` on null and by `files[0].name` on an empty list.
TypeErrorMessage == <<"Cannot read properties of null or undefined">>

(***************************************************************************)
(* Entries of the results box.                                             *)
(***************************************************************************)
ErrorEntry(timestamp, message) ==
    [class |-> "transcription-result error",
     heading |-> <<"Error at", timestamp>>,
     paragraphs |-> <<message>>]

ResultEntry(timestamp, result, name) ==
    [class |-> "transcription-result",
     heading |-> <<"Transcription Result", timestamp>>,
     paragraphs |-> << <<result.text>>,
                       <<"Processing Time:", result.processing_time \o "s">>,
                       <<"File:", name>> >>]

(***************************************************************************)
(* constructor: looks the elements up, registers the listeners and starts  *)
(* checkAPIConnection, which is suspended at its fetch.  The page markup   *)
(* decides how the controls start.                                         *)
(***************************************************************************)
InitialFileInputDisabled == TRUE
InitialUploadButtonDisabled == TRUE

Init ==
    /\ files = <<>>
    /\ fileInputDisabled = InitialFileInputDisabled
    /\ uploadButtonDisabled = InitialUploadButtonDisabled
    /\ progressVisible = FALSE
    /\ statusText = <<>>
    /\ resultsBox = <<>>
    /\ healthPc = "pending"
    /\ inFlight = <<>>
    /\ posts = <<>>
    /\ lastEvent = "load"
    /\ lastDone = <<>>
    /\ backendUp \in BOOLEAN

(***************************************************************************)
(* checkAPIConnection, resumed when fetch('/api/v1/health') settles.       *)
(***************************************************************************)
HealthOutcomes == {"ok", "not ok", "reject"}

\* Variant: the catch branch shows the message and enables the input as
\* the success branch does.
checkAPIConnectionEnablesInput(outcome) ==
    IF outcome = "ok"
    THEN /\ statusText' = ReadyText
         /\ fileInputDisabled' = FALSE
    ELSE /\ statusText' = ConnectionErrorText
         /\ fileInputDisabled' = FALSE

checkAPIConnection(outcome) ==
    IF outcome = "ok"
    THEN /\ statusText' = ReadyText
         /\ fileInputDisabled' = FALSE
    ELSE /\ statusText' = ConnectionErrorText
         /\ fileInputDisabled' = TRUE

\* Variant: a reachable service also enables the submit button.
HealthSettlesEnablesButton(outcome) ==
    /\ healthPc = "pending"
    /\ healthPc' = (IF outcome = "ok" THEN "ok" ELSE "failed")
    /\ checkAPIConnection(outcome)
    /\ uploadButtonDisabled' = (IF outcome = "ok" THEN FALSE ELSE uploadButtonDisabled)
    /\ lastEvent' = "health"
    /\ UNCHANGED <<files, progressVisible, resultsBox, inFlight, posts, lastDone,
                   backendUp>>

HealthSettles(outcome) ==
    /\ healthPc = "pending"
    /\ healthPc' = (IF outcome = "ok" THEN "ok" ELSE "failed")
    /\ checkAPIConnection(outcome)
    /\ lastEvent' = "health"
    /\ UNCHANGED <<files, uploadButtonDisabled, progressVisible, resultsBox,
                   inFlight, posts, lastDone, backendUp>>

(***************************************************************************)
(* handleFileSelection, the 'change' listener of the file input.           *)
(***************************************************************************)
\* Variant: a file of the wrong type only gets the message.
handleFileSelectionTypeMessageOnly(fileList) ==
    IF fileList = <<>>
    THEN UNCHANGED <<statusText, uploadButtonDisabled>>
    ELSE LET file == fileList[1] IN
         IF file.type # "audio/wav"
         THEN /\ statusText' = TypeErrorText
              /\ UNCHANGED uploadButtonDisabled
         ELSE IF file.size > maxFileSize
         THEN /\ statusText' = SizeErrorText
              /\ uploadButtonDisabled' = TRUE
         ELSE /\ uploadButtonDisabled' = FALSE
              /\ statusText' = SelectedText(file)

\* Variant: the size check rejects a file of exactly maxFileSize bytes.
handleFileSelectionSizeInclusive(fileList) ==
    IF fileList = <<>>
    THEN UNCHANGED <<statusText, uploadButtonDisabled>>
    ELSE LET file == fileList[1] IN
         IF file.type # "audio/wav"
         THEN /\ statusText' = TypeErrorText
              /\ uploadButtonDisabled' = TRUE
         ELSE IF file.size >= maxFileSize
         THEN /\ statusText' = SizeErrorText
              /\ uploadButtonDisabled' = TRUE
         ELSE /\ uploadButtonDisabled' = FALSE
              /\ statusText' = SelectedText(file)

\* Variant: an oversized file only gets the message.
handleFileSelectionSizeMessageOnly(fileList) ==
    IF fileList = <<>>
    THEN UNCHANGED <<statusText, uploadButtonDisabled>>
    ELSE LET file == fileList[1] IN
         IF file.type # "audio/wav"
         THEN /\ statusText' = TypeErrorText
              /\ uploadButtonDisabled' = TRUE
         ELSE IF file.size > maxFileSize
         THEN /\ statusText' = SizeErrorText
              /\ UNCHANGED uploadButtonDisabled
         ELSE /\ uploadButtonDisabled' = FALSE
              /\ statusText' = SelectedText(file)

\* Variant: an empty file list disables the submit button.
handleFileSelectionEmptyDisables(fileList) ==
    IF fileList = <<>>
    THEN /\ uploadButtonDisabled' = TRUE
         /\ UNCHANGED statusText
    ELSE LET file == fileList[1] IN
         IF file.type # "audio/wav"
         THEN /\ statusText' = TypeErrorText
              /\ uploadButtonDisabled' = TRUE
         ELSE IF file.size > maxFileSize
         THEN /\ statusText' = SizeErrorText
              /\ uploadButtonDisabled' = TRUE
         ELSE /\ uploadButtonDisabled' = FALSE
              /\ statusText' = SelectedText(file)

handleFileSelection(fileList) ==
    IF fileList = <<>>
    THEN UNCHANGED <<statusText, uploadButtonDisabled>>
    ELSE LET file == fileList[1] IN
         IF file.type # "audio/wav"
         THEN /\ statusText' = TypeErrorText
              /\ uploadButtonDisabled' = TRUE
         ELSE IF file.size > maxFileSize
         THEN /\ statusText' = SizeErrorText
              /\ uploadButtonDisabled' = TRUE
         ELSE /\ uploadButtonDisabled' = FALSE
              /\ statusText' = SelectedText(file)

\* The user picks a file in the chooser of the (enabled) file input.
UserSelectsFile(file) ==
    /\ ~fileInputDisabled
    /\ files' = <<file>>
    /\ handleFileSelection(files')
    /\ lastEvent' = "change"
    /\ UNCHANGED <<fileInputDisabled, progressVisible, resultsBox, healthPc,
                   inFlight, posts, lastDone, backendUp>>

\* The user dismisses the chooser, which empties a previous selection.
UserCancelsChooser ==
    /\ ~fileInputDisabled
    /\ files # <<>>
    /\ files' = <<>>
    /\ handleFileSelection(files')
    /\ lastEvent' = "change"
    /\ UNCHANGED <<fileInputDisabled, progressVisible, resultsBox, healthPc,
                   inFlight, posts, lastDone, backendUp>>

(***************************************************************************)
(* handleUpload, the 'click' listener of the submit button, up to its      *)
(* `await fetch(...)`: the POST is issued before the handler is suspended. *)
(***************************************************************************)
\* Variant: the submit button stays enabled while the request runs.
handleUploadKeepsButton ==
    IF files = <<>>
    THEN UNCHANGED <<progressVisible, uploadButtonDisabled, fileInputDisabled,
                     statusText, inFlight, posts>>
    ELSE /\ progressVisible' = TRUE
         /\ UNCHANGED uploadButtonDisabled
         /\ fileInputDisabled' = TRUE
         /\ statusText' = UploadingText
         /\ posts' = Append(posts, files[1])
         /\ inFlight' = Append(inFlight, [file |-> files[1], stage |-> "fetch"])

\* Variant: the file input stays enabled while the request runs.
handleUploadKeepsInput ==
    IF files = <<>>
    THEN UNCHANGED <<progressVisible, uploadButtonDisabled, fileInputDisabled,
                     statusText, inFlight, posts>>
    ELSE /\ progressVisible' = TRUE
         /\ uploadButtonDisabled' = TRUE
         /\ UNCHANGED fileInputDisabled
         /\ statusText' = UploadingText
         /\ posts' = Append(posts, files[1])
         /\ inFlight' = Append(inFlight, [file |-> files[1], stage |-> "fetch"])

handleUpload ==
    IF files = <<>>
    THEN UNCHANGED <<progressVisible, uploadButtonDisabled, fileInputDisabled,
                     statusText, inFlight, posts>>
    ELSE /\ progressVisible' = TRUE
         /\ uploadButtonDisabled' = TRUE
         /\ fileInputDisabled' = TRUE
         /\ statusText' = UploadingText
         /\ posts' = Append(posts, files[1])
         /\ inFlight' = Append(inFlight, [file |-> files[1], stage |-> "fetch"])

UserClicksUpload ==
    /\ ~uploadButtonDisabled
    /\ files # <<>> => Len(posts) < MaxUploads
    /\ handleUpload
    /\ lastEvent' = "click"
    /\ UNCHANGED <<files, resultsBox, healthPc, lastDone, backendUp>>

(***************************************************************************)
(* displayResults: the box and the status it leaves, or the error it       *)
(* throws before it assigns anything.                                      *)
(***************************************************************************)
Returned(box, status) == [threw |-> FALSE, box |-> box, status |-> status]
Threw(message) == [threw |-> TRUE, message |-> message]

\* Variant: a transcription is added at the end of the box.
displayResultsAppends(result, timestamp) ==
    IF result.kind = "null"
    THEN Threw(TypeErrorMessage)
    ELSE IF ~result.success
    THEN Returned(<<ErrorEntry(timestamp, result.error)>> \o resultsBox, statusText)
    ELSE IF files = <<>>
    THEN Threw(TypeErrorMessage)
    ELSE Returned(resultsBox \o <<ResultEntry(timestamp, result, files[1].name)>>,
                  CompleteText)

displayResults(result, timestamp) ==
    IF result.kind = "null"
    THEN Threw(TypeErrorMessage)
    ELSE IF ~result.success
    THEN Returned(<<ErrorEntry(timestamp, result.error)>> \o resultsBox, statusText)
    ELSE IF files = <<>>
    THEN Threw(TypeErrorMessage)
    ELSE Returned(<<ResultEntry(timestamp, result, files[1].name)>> \o resultsBox,
                  CompleteText)

(***************************************************************************)
(* handleUpload's catch and finally blocks.                                *)
(***************************************************************************)
\* Variant: the catch block shows a fixed text in place of error.message.
catchBlockGenericStatus(message, timestamp) ==
    /\ statusText' = ErrorText(<<"Upload failed">>)
    /\ resultsBox' = <<ErrorEntry(timestamp, message)>> \o resultsBox

\* Variant: the error entry replaces the content of the box.
catchBlockReplacesBox(message, timestamp) ==
    /\ statusText' = ErrorText(message)
    /\ resultsBox' = <<ErrorEntry(timestamp, message)>>

catchBlock(message, timestamp) ==
    /\ statusText' = ErrorText(message)
    /\ resultsBox' = <<ErrorEntry(timestamp, message)>> \o resultsBox

\* Variant: the finally block forgets to re-enable the file input.
finallyBlockLeavesInput ==
    /\ progressVisible' = FALSE
    /\ uploadButtonDisabled' = FALSE
    /\ UNCHANGED fileInputDisabled
    /\ files' = <<>>

\* Variant: the finally block keeps the selected file.
finallyBlockKeepsFile ==
    /\ progressVisible' = FALSE
    /\ uploadButtonDisabled' = FALSE
    /\ fileInputDisabled' = FALSE
    /\ UNCHANGED files

finallyBlock ==
    /\ progressVisible' = FALSE
    /\ uploadButtonDisabled' = FALSE
    /\ fileInputDisabled' = FALSE
    /\ files' = <<>>

Without(seq, i) == SubSeq(seq, 1, i - 1) \o SubSeq(seq, i + 1, Len(seq))

Settled(i, outcome) ==
    /\ inFlight' = Without(inFlight, i)
    /\ lastDone' = <<[file |-> inFlight[i].file, outcome |-> outcome]>>
    /\ lastEvent' = "upload done"

\* `await fetch(...)` settles for the i-th suspended handleUpload.
FetchSettles(i, outcome) ==
    /\ i \in 1..Len(inFlight)
    /\ inFlight[i].stage = "fetch"
    /\ IF outcome.kind = "response" /\ outcome.ok
       THEN /\ inFlight' = [inFlight EXCEPT ![i].stage = "json"]
            /\ lastEvent' = "response"
            /\ UNCHANGED <<files, fileInputDisabled, uploadButtonDisabled,
                           progressVisible, statusText, resultsBox, lastDone>>
       ELSE /\ \E timestamp \in Timestamps :
                 catchBlock(IF outcome.kind = "reject"
                            THEN outcome.message
                            ELSE UploadFailedMessage(outcome), timestamp)
            /\ finallyBlock
            /\ Settled(i, outcome)
    /\ UNCHANGED <<healthPc, posts, backendUp>>

\* Variant: an exception raised while the body is handled ends the
\* invocation at once, with neither the catch nor the finally block.
JsonSettlesUncaught(i, outcome) ==
    /\ i \in 1..Len(inFlight)
    /\ inFlight[i].stage = "json"
    /\ \E timestamp \in Timestamps :
         LET r == IF outcome.kind = "reject"
                  THEN Threw(outcome.message)
                  ELSE displayResults(outcome, timestamp) IN
         IF r.threw
         THEN UNCHANGED <<resultsBox, statusText, progressVisible,
                          uploadButtonDisabled, fileInputDisabled, files>>
         ELSE /\ resultsBox' = r.box
              /\ statusText' = r.status
              /\ finallyBlock
    /\ Settled(i, outcome)
    /\ UNCHANGED <<healthPc, posts, backendUp>>

\* `await response.json()` settles for the i-th suspended handleUpload.
JsonSettles(i, outcome) ==
    /\ i \in 1..Len(inFlight)
    /\ inFlight[i].stage = "json"
    /\ \E timestamp \in Timestamps :
         IF outcome.kind = "reject"
         THEN catchBlock(outcome.message, timestamp)
         ELSE LET r == displayResults(outcome, timestamp) IN
              IF r.threw
              THEN catchBlock(r.message, timestamp)
              ELSE /\ resultsBox' = r.box
                   /\ statusText' = r.status
    /\ finallyBlock
    /\ Settled(i, outcome)
    /\ UNCHANGED <<healthPc, posts, backendUp>>

Next ==
    \/ \E outcome \in HealthOutcomes : HealthSettles(outcome)
    \/ \E file \in UserFiles : UserSelectsFile(file)
    \/ UserCancelsChooser
    \/ UserClicksUpload
    \/ \E i \in 1..MaxUploads, outcome \in FetchOutcomes : FetchSettles(i, outcome)
    \/ \E i \in 1..MaxUploads, outcome \in JsonOutcomes : JsonSettles(i, outcome)

Spec == Init /\ [][Next]_vars

\* The network settles every request it was given: each await of a
\* suspended handleUpload is resumed with a response or an error.
FairSpec ==
    /\ Spec
    /\ WF_vars(\E i \in 1..MaxUploads, outcome \in FetchOutcomes : FetchSettles(i, outcome))
    /\ WF_vars(\E i \in 1..MaxUploads, outcome \in JsonOutcomes : JsonSettles(i, outcome))

(***************************************************************************)
(* Properties.                                                             *)
(***************************************************************************)
AcceptedFile(file) == file.type = "audio/wav" /\ file.size <= maxFileSize

UploadJustDone == lastEvent = "upload done" /\ lastDone # <<>>
SelectionJustHandled == lastEvent = "change" /\ files # <<>>

\* C1: at most one upload request is in flight at any time: no POST is
\* issued while an earlier POST has neither completed nor failed.
C1_AtMostOneInFlight == Len(inFlight) <= 1

\* A second upload is in flight after the first one has settled.
C1_Witness == Len(inFlight) = 1 /\ Len(posts) = 2 /\ lastDone # <<>>

\* C2: right after an upload settles, whatever its outcome, the selection
\* is empty, the file input and the submit button are enabled and the
\* progress section is hidden.
C2_ControlsRestored ==
    UploadJustDone =>
        /\ files = <<>>
        /\ ~fileInputDisabled
        /\ ~uploadButtonDisabled
        /\ ~progressVisible

\* An upload has just settled on a 2xx response whose body does not parse.
C2_Witness == UploadJustDone /\ lastDone[1].outcome = Unparsable

\* C3: right after an upload of file F settles on a 2xx response whose JSON
\* has success = true, the first entry of the results box is a non-error
\* entry with that text, that processing time and the name of F, and the
\* status reads "Transcription complete".
C3_SuccessRendered ==
    (/\ UploadJustDone
     /\ lastDone[1].outcome.kind = "object"
     /\ lastDone[1].outcome.success)
    => /\ resultsBox # <<>>
       /\ LET entry == Head(resultsBox)
              result == lastDone[1].outcome
          IN  /\ entry.class = "transcription-result"
              /\ Len(entry.paragraphs) = 3
              /\ entry.paragraphs[1] = <<result.text>>
              /\ entry.paragraphs[2] = <<"Processing Time:", result.processing_time \o "s">>
              /\ entry.paragraphs[3] = <<"File:", lastDone[1].file.name>>
       /\ statusText = <<"Transcription complete">>

\* A successful upload of test.wav has just been rendered above an older entry.
C3_Witness ==
    /\ UploadJustDone
    /\ lastDone[1].outcome = SuccessJson("hello", "1.2")
    /\ lastDone[1].file.name = "test.wav"
    /\ Len(resultsBox) = 2

\* The message of the error thrown for a failed fetch or a non-2xx response.
ThrownMessage(outcome) ==
    IF outcome.kind = "reject"
    THEN outcome.message
    ELSE <<"Upload failed:", outcome.status, outcome.statusText>>

UploadFailedOnTransport ==
    /\ UploadJustDone
    /\ \/ lastDone[1].outcome = NetworkError
       \/ lastDone[1].outcome.kind = "response" /\ ~lastDone[1].outcome.ok

\* C4: right after an upload fails with a network error or a non-2xx status,
\* the first entry of the results box is an error entry holding the thrown
\* error message, and the status is "Error:" followed by that message.
C4_FailureRendered ==
    UploadFailedOnTransport
    => /\ resultsBox # <<>>
       /\ Head(resultsBox).class = "transcription-result error"
       /\ Head(resultsBox).paragraphs = <<ThrownMessage(lastDone[1].outcome)>>
       /\ statusText = <<"Error:">> \o ThrownMessage(lastDone[1].outcome)

\* An upload has just failed with HTTP 500, after an earlier upload.
C4_Witness ==
    /\ UploadFailedOnTransport
    /\ lastDone[1].outcome.kind = "response"
    /\ lastDone[1].outcome.status = "500"
    /\ Len(resultsBox) = 2

\* C5: right after the selection of a file whose type is not 'audio/wav',
\* whatever its size, the submit button is disabled and the status is the
\* type-error message.
C5_WrongTypeRejected ==
    (SelectionJustHandled /\ files[1].type # "audio/wav")
    => /\ uploadButtonDisabled
       /\ statusText = <<"Error:", "Please select a WAV file">>

\* An oversized non-WAV file has just been selected in a session in which
\* an upload has already settled.
C5_Witness ==
    /\ SelectionJustHandled
    /\ files[1].type = "audio/mpeg"
    /\ files[1].size > maxFileSize
    /\ lastDone # <<>>

\* C6: right after the selection of a WAV file larger than 50*1024*1024
\* bytes the submit button is disabled and the status is the size-error
\* message; a WAV file of exactly 50*1024*1024 bytes is not rejected.
C6_OversizeRejected ==
    (SelectionJustHandled /\ files[1].type = "audio/wav")
    => /\ files[1].size > 52428800
          => /\ uploadButtonDisabled
             /\ statusText = <<"Error:", "File size exceeds 50MB limit">>
       /\ files[1].size = 52428800
          => /\ ~uploadButtonDisabled
             /\ statusText[1] = "Selected:"

\* A WAV file one byte over the limit has just been selected.
C6_Witness ==
    /\ SelectionJustHandled
    /\ files[1].type = "audio/wav"
    /\ files[1].size = 52428801
    /\ statusText = SizeErrorText

\* The size in MB, to two decimals, of the accepted files of UserFiles.
MegabytesShown(file) ==
    CASE file.size = 1234567  -> "1.18"
      [] file.size = 52428800 -> "50.00"

\* C7: right after the selection of a WAV file of at most 50MB the submit
\* button is enabled and the status is 'Selected: <name> (<MB>MB)' for
\* that file, also when the selection before it was invalid.
C7_ValidAccepted ==
    (SelectionJustHandled /\ files[1].type = "audio/wav" /\ files[1].size <= 52428800)
    => /\ ~uploadButtonDisabled
       /\ statusText = <<"Selected:", files[1].name, "(" \o MegabytesShown(files[1]) \o "MB)">>

\* test.wav has just been selected and accepted.
C7_Witness ==
    /\ SelectionJustHandled
    /\ files[1].name = "test.wav"
    /\ ~uploadButtonDisabled
    /\ statusText[1] = "Selected:"

\* C8: when the health check fails the file input is disabled and the
\* status is the connection-error message, and the file input stays
\* disabled for the rest of the page session.
C8_HealthFailureDisables ==
    /\ (lastEvent = "health" /\ healthPc = "failed")
       => statusText = <<"Error:", "Cannot connect to transcription service">>
    /\ healthPc = "failed" => fileInputDisabled

\* The health check has failed.
C8_Witness == healthPc = "failed" /\ fileInputDisabled

\* C9: every POST issued by handleUpload carries a file of type 'audio/wav'
\* and of at most 50MB, and while an unaccepted file is selected the submit
\* button is disabled.
C9_OnlyAcceptedFilesPosted ==
    /\ \A i \in DOMAIN posts :
          posts[i].type = "audio/wav" /\ posts[i].size <= 52428800
    /\ (files # <<>> /\ ~AcceptedFile(files[1])) => uploadButtonDisabled

\* A POST has just been issued after an earlier upload settled.
C9_Witness == lastEvent = "click" /\ Len(posts) = 2 /\ Len(inFlight) = 1

\* C10: every POST is issued by one submit click made while a file is
\* selected, one POST per click; a settled upload leaves no file selected,
\* only a file selection selects one, and no POST is issued while none is.
C10_NoRetry ==
    [][ /\ posts' # posts
           => /\ lastEvent' = "click"
              /\ files # <<>>
              /\ posts' = Append(posts, files[1])
        /\ Len(inFlight') < Len(inFlight) => files' = <<>>
        /\ (files = <<>> /\ files' # <<>>) => lastEvent' = "change"
        /\ files = <<>> => posts' = posts ]_vars

\* The submit button was clicked after an upload settled and issued nothing.
C10_Witness ==
    /\ lastEvent = "click"
    /\ files = <<>>
    /\ lastDone # <<>>
    /\ Len(posts) = 1
    /\ inFlight = <<>>

(***************************************************************************)
(* The nginx server block in front of the page and of the transcription    *)
(* service.  A path is the sequence of its segments.                       *)
(***************************************************************************)
healthPath == <<"api", "v1", "health">>               \* fetch('/api/v1/health')
apiEndpoint == <<"api", "v1", "audio", "transcribe">> \* this.apiEndpoint
audioLocation == <<"api", "v1", "audio">>             \* location /api/v1/audio/
clientMaxBodySize == 50 * 1024 * 1024                 \* client_max_body_size 50M

IsPrefix(p, q) == Len(p) <= Len(q) /\ SubSeq(q, 1, Len(p)) = p

\* What the upstream on localhost:8008 answers to a transcription request.
BackendAnswers ==
    { HttpResponse("200", "OK"),
      HttpResponse("500", "Internal Server Error") }

\* The multipart body holds the file and the framing of its 'audio' part.
MinMultipartBodySize(file) == file.size + 1

\* The responses the server block can give: a request under
\* /api/v1/audio/ is answered 204 for OPTIONS, refused when its body is too
\* large, and otherwise passed to the upstream; any other path is answered
\* from the document root, the entry document standing in for a missing file.
nginxResponses(method, path, bodySize) ==
    IF IsPrefix(audioLocation, path) /\ Len(path) > Len(audioLocation)
    THEN IF method = "OPTIONS"
         THEN { HttpResponse("204", "No Content") }
         ELSE IF bodySize > clientMaxBodySize
         THEN { HttpResponse("413", "Request Entity Too Large") }
         ELSE IF backendUp
         THEN BackendAnswers
         ELSE { HttpResponse("502", "Bad Gateway") }
    ELSE { HttpResponse("200", "OK") }

\* The health check of a page served by the server block.
ProxyHealthSettles ==
    \E response \in nginxResponses("GET", healthPath, 0) :
        HealthSettles(IF response.ok THEN "ok" ELSE "not ok")

\* The upload of a page served by the server block.
ProxyFetchSettles ==
    \E i \in 1..Len(inFlight) :
        \E response \in nginxResponses("POST", apiEndpoint,
                                       MinMultipartBodySize(inFlight[i].file)) :
            FetchSettles(i, response)

ProxyNext ==
    \/ ProxyHealthSettles
    \/ \E file \in UserFiles : UserSelectsFile(file)
    \/ UserCancelsChooser
    \/ UserClicksUpload
    \/ ProxyFetchSettles
    \/ \E i \in 1..MaxUploads, outcome \in JsonOutcomes : JsonSettles(i, outcome)

ProxySpec == Init /\ [][ProxyNext]_vars

(***************************************************************************)
(* Properties (continued).                                                 *)
(***************************************************************************)
\* C11: when the health check gets an OK response the file input is enabled
\* and the status is the ready message; the health check, however it ends,
\* changes nothing but the status text and the file input's enabled flag:
\* it neither enables the submit button nor issues an upload.
C11_HealthCheckFrame ==
    [][ (healthPc = "pending" /\ healthPc' # "pending")
        => /\ healthPc' = "ok"
              => /\ ~fileInputDisabled'
                 /\ statusText' = <<"Ready to process audio files">>
           /\ UNCHANGED <<files, uploadButtonDisabled, progressVisible,
                          resultsBox, inFlight, posts>> ]_vars

\* The health check has just succeeded: the input is usable, the button is not.
C11_Witness ==
    /\ lastEvent = "health"
    /\ healthPc = "ok"
    /\ ~fileInputDisabled
    /\ uploadButtonDisabled
    /\ statusText = ReadyText

\* C12: while an upload request is in flight the file input and the submit
\* button are disabled and the progress section is visible.
C12_UploadingLocksControls ==
    inFlight # <<>>
    => /\ fileInputDisabled
       /\ uploadButtonDisabled
       /\ progressVisible

\* The second upload of the session is waiting for its response body.
C12_Witness ==
    /\ Len(inFlight) = 1
    /\ inFlight[1].stage = "json"
    /\ Len(posts) = 2
    /\ fileInputDisabled
    /\ progressVisible

\* C13 (as claimed): in every reachable state in which no file is selected
\* or the selected file is invalid, the submit button is disabled.
C13_IdleDisablesSubmit ==
    (files = <<>> \/ ~AcceptedFile(files[1])) => uploadButtonDisabled

\* C13 (amended): while an invalid file is selected the submit button is
\* disabled; with no file selected it need not be: right after an upload
\* settles, and right after the chooser is cancelled following a valid
\* selection, no file is selected and the submit button is enabled.
C13_InvalidSelectionDisablesSubmit ==
    /\ (files # <<>> /\ ~AcceptedFile(files[1])) => uploadButtonDisabled
    /\ UploadJustDone => (files = <<>> /\ ~uploadButtonDisabled)
    /\ (/\ lastEvent = "change"
        /\ files = <<>>
        /\ statusText # <<>>
        /\ statusText[1] = "Selected:")
       => ~uploadButtonDisabled

\* The chooser has just been cancelled after a valid selection.
C13_Witness ==
    /\ lastEvent = "change"
    /\ files = <<>>
    /\ statusText # <<>>
    /\ statusText[1] = "Selected:"
    /\ ~uploadButtonDisabled

\* C14: provided the network answers, every upload that was started leaves
\* the uploading state: the progress section gets hidden and both controls
\* enabled, with one results entry per upload issued; at any time the box
\* holds one entry for each upload that has settled.
C14_UploadEventuallySettles ==
    /\ [](Len(resultsBox) + Len(inFlight) = Len(posts))
    /\ inFlight # <<>>
       ~> (/\ inFlight = <<>>
           /\ ~progressVisible
           /\ ~fileInputDisabled
           /\ ~uploadButtonDisabled
           /\ Len(resultsBox) = Len(posts))

\* An upload has just settled on a body that parses to null, whose handling
\* throws inside displayResults.
C14_Witness ==
    /\ UploadJustDone
    /\ lastDone[1].outcome = NullJson
    /\ ~progressVisible
    /\ Len(resultsBox) = Len(posts)
    /\ Head(resultsBox).paragraphs = <<TypeErrorMessage>>

C16_StatusReflectsOutcome ==
    UploadJustDone
    => /\ statusText # <<"Uploading and processing...">>
       /\ \/ statusText = <<"Transcription complete">>
          \/ Head(statusText) = "Error:"
       /\ (lastDone[1].outcome.kind = "object" /\ ~lastDone[1].outcome.success)
          => /\ Head(statusText) = "Error:"
             /\ resultsBox # <<>>
             /\ Head(resultsBox).class = "transcription-result error"

\* C17: for a page served through the proxy, a 2xx answer to the health
\* request means the transcription service is reachable: when the service
\* is down the health check ends with the file input disabled and the
\* connection-error message.
C17_HealthReflectsBackend ==
    (lastEvent = "health" /\ ~backendUp)
    => /\ healthPc = "failed"
       /\ fileInputDisabled
       /\ statusText = <<"Error:", "Cannot connect to transcription service">>

====
